---- MODULE Spec2Model ----
(***************************************************************************)
(* Model of scripts/yacal.py: the YandexCalendarClient facade over a       *)
(* CalDAV session and the command dispatcher main().                       *)
(*                                                                         *)
(* Python values are modelled as follows.                                  *)
(*   Optional[T]   None is <<>>, a present value v is <<v>>                *)
(*   str (uids, credentials)          a TLA+ string                        *)
(*   str (names, text, addresses)     a sequence of one-character strings  *)
(*   datetime      an integer number of minutes                            *)
(*   a Calendar    its 1-based position in principal.calendars(), 0 = None *)
(*   an Event/Todo a record; href is the object's identity on the server   *)
(***************************************************************************)
EXTENDS Integers, Sequences, FiniteSets, TLC

VARIABLES
    client,     \* self.client of the facade: "none", "oauth" or "basic"
    calendars,  \* principal.calendars(): the server's calendars, in server order
    objects,    \* objects[i]: the calendar objects of calendars[i], in server order
    nextHref,   \* the next identity the server hands to a new object
    last,       \* the facade call made last and its outcome
    cli         \* the outcome of the last run of main()

vars == <<client, calendars, objects, nextHref, last, cli>>

----------------------------------------------------------------------------
(* Bounds of the model *)

MaxCals == 2
MaxEvents == 2
MaxObjects == 2

----------------------------------------------------------------------------
(* Python values *)

None == <<>>
Some(v) == <<v>>
Val(x) == x[1]

\* bool(x) of an Optional[str] held as a TLA+ string: None and "" are false
Truthy(x) == x # None /\ Val(x) # ""

\* bool(x) of an Optional[str] held as a character sequence
TruthyText(x) == x # None /\ Val(x) # <<>>

\* bool(x) of an Optional[datetime]: every datetime is true
TruthyTime(x) == x # None

\* str.lower() on the characters the model uses
LowerChar(c) ==
    CASE c = "A" -> "a"
      [] c = "B" -> "b"
      [] c = "T" -> "t"
      [] c = "O" -> "o"
      [] c = "D" -> "d"
      [] c = "S" -> "s"
      [] OTHER -> c

Lower(s) == [i \in 1..Len(s) |-> LowerChar(s[i])]

\* Python's `needle in hay` on strings
Contains(needle, hay) ==
    \E i \in 0..(Len(hay) - Len(needle)) :
        \A j \in 1..Len(needle) : hay[i + j] = needle[j]

\* ical.get(key, ''): the field's text, '' when the field is missing
GetText(field) == IF field = None THEN <<>> ELSE Val(field)

----------------------------------------------------------------------------
(* The outcome of a facade call *)

\* op, args: the method and its arguments; cal: the calendar it resolved;
\* exc: the exception it raised ("none" when it returned); val: the kind of value
\* returned; items: the identities of the objects (or calendars) returned;
\* saved, deleted: the identities of the objects it saved or deleted, in order;
\* range: the window handed to the calendar's range query; failed: the request
\* the session failed during the call and the exception it raised, <<>> when the
\* session answered every request
NoCall ==
    [op |-> "none", args |-> [none |-> TRUE], cal |-> 0, exc |-> "none",
     val |-> "None", items |-> <<>>, saved |-> <<>>, deleted |-> <<>>,
     range |-> <<>>, failed |-> <<>>]

Call(op, args) == [NoCall EXCEPT !.op = op, !.args = args]

NoCli == [command |-> "none", json |-> 0, stderr |-> "", exit |-> 0]

----------------------------------------------------------------------------
(* Construction *)

TODOS_MARKER == <<"t", "o", "d", "o", "s">>

YandexCalendarClient_eager(token, username, password) ==
    IF Truthy(token) THEN [client |-> "oauth", exc |-> "none"]
    ELSE IF Truthy(username) \/ Truthy(password)
         THEN [client |-> "basic", exc |-> "none"]
         ELSE [client |-> "none", exc |-> "ValueError"]

\* YandexCalendarClient.__init__: the session it holds, or the error it raises
YandexCalendarClient(token, username, password) ==
    IF Truthy(token) THEN [client |-> "oauth", exc |-> "none"]
    ELSE IF Truthy(username) /\ Truthy(password)
         THEN [client |-> "basic", exc |-> "none"]
         ELSE [client |-> "none", exc |-> "ValueError"]

----------------------------------------------------------------------------
(* Calendar resolution *)

\* get_calendars: principal.calendars(), as the server returns them
get_calendars(cals) == cals

\* The first position from k on where flags is TRUE, 0 when there is none:
\* `for x in xs: if match(x): return x` followed by `return None`
RECURSIVE FirstFrom(_, _)
FirstFrom(flags, k) ==
    IF k > Len(flags) THEN 0
    ELSE IF flags[k] THEN k
    ELSE FirstFrom(flags, k + 1)

First(flags) == FirstFrom(flags, 1)

get_calendar_nocase(cals, name) ==
    LET cs == get_calendars(cals)
    IN  IF cs = <<>> THEN 0
        ELSE IF TruthyText(name)
             THEN First([i \in 1..Len(cs) |-> Lower(cs[i].name) = Lower(Val(name))])
             ELSE 1

\* get_calendar: the calendar called `name`, the first one when no name is given
get_calendar(cals, name) ==
    LET cs == get_calendars(cals)
    IN  IF cs = <<>> THEN 0
        ELSE IF TruthyText(name)
             THEN First([i \in 1..Len(cs) |-> cs[i].name = Val(name)])
             ELSE 1

get_todo_calendar_fallback(cals) ==
    LET cs == get_calendars(cals)
        k == First([i \in 1..Len(cs) |-> Contains(TODOS_MARKER, cs[i].url)])
    IN  IF k = 0 /\ cs # <<>> THEN 1 ELSE k

\* get_todo_calendar: the first calendar whose address contains 'todos'
get_todo_calendar(cals) ==
    LET cs == get_calendars(cals)
    IN  First([i \in 1..Len(cs) |-> Contains(TODOS_MARKER, cs[i].url)])

----------------------------------------------------------------------------
(* Calendar objects and the session's primitives *)

\* An icalendar component with no property set
Component(kind) ==
    [href |-> 0, name |-> kind, uid |-> "", summary |-> None,
     description |-> None, location |-> None, dtstart |-> None, dtend |-> None,
     dtstamp |-> None, rrule |-> None, alarms |-> <<>>, categories |-> None,
     priority |-> None, status |-> None, created |-> None, due |-> None,
     completed |-> None]

\* The uid the library gives an object saved without one
NewUid(href) == "u" \o ToString(href)

Hrefs(seq) == [i \in 1..Len(seq) |-> seq[i].href]

\* calendar.events(): the calendar's objects, in server order
events(objs, cal) == objs[cal]

\* Positions of the objects a sequence of flags selects, in order
RECURSIVE PositionsFrom(_, _)
PositionsFrom(flags, k) ==
    IF k > Len(flags) THEN <<>>
    ELSE IF flags[k] THEN <<k>> \o PositionsFrom(flags, k + 1)
    ELSE PositionsFrom(flags, k + 1)

Positions(flags) == PositionsFrom(flags, 1)

\* calendar.todos(): the positions of the calendar's task objects
todos(objs, cal) ==
    Positions([i \in 1..Len(objs[cal]) |-> objs[cal][i].name = "VTODO"])

\* calendar.date_search(start, end): the positions of the events that overlap
\* the window
date_search(objs, cal, start, end) ==
    Positions([i \in 1..Len(objs[cal]) |->
        /\ objs[cal][i].name = "VEVENT"
        /\ (start = None \/ objs[cal][i].dtend = None
               \/ Val(objs[cal][i].dtend) > Val(start))
        /\ (end = None \/ objs[cal][i].dtstart = None
               \/ Val(objs[cal][i].dtstart) < Val(end))])

\* calendar.save_event(ical_data): the object is stored last, under a new
\* identity and uid
save_event(objs, cal, href, comp) ==
    [objs EXCEPT ![cal] =
        Append(@, [comp EXCEPT !.href = href, !.uid = NewUid(href)])]

\* event.save(): the object at position k is stored as comp
save(objs, cal, k, comp) == [objs EXCEPT ![cal][k] = comp]

\* event.delete(): the object at position k is removed
delete(objs, cal, k) ==
    [objs EXCEPT ![cal] =
        [i \in 1..(Len(@) - 1) |-> IF i < k THEN @[i] ELSE @[i + 1]]]

\* What a facade call leaves behind: the server's objects, the next identity and
\* the call's outcome
Outcome(objs, href, call) == [objects |-> objs, nextHref |-> href, last |-> call]

Raise(objs, href, call, exc) ==
    Outcome(objs, href, [call EXCEPT !.exc = exc, !.val = "raise"])

----------------------------------------------------------------------------
(* Event operations of the facade *)

\* `if not calendar: calendar = self.get_calendar()`
DefaultCalendar(cals, calendar) ==
    IF calendar = 0 THEN get_calendar(cals, None) ELSE calendar

get_events_consuming(objs, href, cals, calendar, start, end) ==
    LET cal == DefaultCalendar(cals, calendar)
        call == [Call("get_events",
                      [calendar |-> calendar, start |-> start, end |-> end])
                 EXCEPT !.cal = cal, !.val = "list"]
    IN  IF cal = 0 THEN Outcome(objs, href, call)
        ELSE LET found == date_search(objs, cal, start, end)
                 rest == Positions([i \in 1..Len(objs[cal]) |->
                                       \A j \in 1..Len(found) : found[j] # i])
             IN  Outcome([objs EXCEPT ![cal] =
                             [i \in 1..Len(rest) |-> objs[cal][rest[i]]]],
                         href,
                         [call EXCEPT !.range = <<start, end>>,
                                      !.items = [i \in 1..Len(found) |->
                                                    objs[cal][found[i]].href]])

\* get_events: the range query's result, [] when no calendar resolves
get_events(objs, href, cals, calendar, start, end) ==
    LET cal == DefaultCalendar(cals, calendar)
        call == [Call("get_events",
                      [calendar |-> calendar, start |-> start, end |-> end])
                 EXCEPT !.cal = cal, !.val = "list"]
    IN  IF cal = 0 THEN Outcome(objs, href, call)
        ELSE LET found == date_search(objs, cal, start, end)
             IN  Outcome(objs, href,
                     [call EXCEPT !.range = <<start, end>>,
                                  !.items = [i \in 1..Len(found) |->
                                                objs[cal][found[i]].href]])

\* The VEVENT create_event builds from its arguments
NewEvent(title, description, location, start, end, reminder_minutes, rrule, now) ==
    LET dtstart == IF TruthyTime(start) THEN Val(start) ELSE now
        dtend == IF TruthyTime(end) THEN Val(end) ELSE dtstart + 60
    IN  [Component("VEVENT") EXCEPT
            !.summary = Some(title),
            !.description = IF description # <<>> THEN Some(description) ELSE None,
            !.location = IF location # <<>> THEN Some(location) ELSE None,
            !.dtstart = Some(dtstart),
            !.dtend = Some(dtend),
            !.dtstamp = Some(now),
            !.alarms = IF reminder_minutes # None /\ Val(reminder_minutes) # 0
                       THEN <<[action |-> "DISPLAY",
                               trigger |-> 0 - Val(reminder_minutes)]>>
                       ELSE <<>>,
            !.rrule = IF Truthy(rrule) THEN rrule ELSE None]

\* create_event: one new VEVENT saved in the resolved calendar
create_event(objs, href, cals, title, description, location, start, end, reminder_minutes, rrule, calendar, now) ==
    LET cal == DefaultCalendar(cals, calendar)
        call == [Call("create_event",
                      [title |-> title, description |-> description,
                       location |-> location, start |-> start, end |-> end,
                       reminder_minutes |-> reminder_minutes, rrule |-> rrule,
                       calendar |-> calendar, now |-> now])
                 EXCEPT !.cal = cal]
        comp == NewEvent(title, description, location, start, end,
                         reminder_minutes, rrule, now)
    IN  IF Truthy(rrule) /\ Val(rrule) = "BAD"
        THEN Raise(objs, href, call, "ValueError")
        ELSE IF cal = 0 THEN Raise(objs, href, call, "AttributeError")
        ELSE Outcome(save_event(objs, cal, href, comp), href + 1,
                 [call EXCEPT !.val = "object", !.items = <<href>>,
                              !.saved = <<href>>])

\* The assignments update_event makes to the matching component
UpdatedEvent_clearing(ical, title, description, location, start, end) ==
    [ical EXCEPT
        !.summary = IF TruthyText(title) THEN title ELSE None,
        !.description = IF TruthyText(description) THEN description ELSE None,
        !.location = IF TruthyText(location) THEN location ELSE None,
        !.dtstart = IF TruthyTime(start) THEN start ELSE None,
        !.dtend = IF TruthyTime(end) THEN end ELSE None]

UpdatedEvent(ical, title, description, location, start, end) ==
    [ical EXCEPT
        !.summary = IF TruthyText(title) THEN title ELSE @,
        !.description = IF TruthyText(description) THEN description ELSE @,
        !.location = IF TruthyText(location) THEN location ELSE @,
        !.dtstart = IF TruthyTime(start) THEN start ELSE @,
        !.dtend = IF TruthyTime(end) THEN end ELSE @]

\* The position of the first object among `positions` of calendar cal whose uid
\* is `uid`, 0 when there is none: `if str(ical.get('uid')) == uid`
FindUid(objs, cal, positions, uid) ==
    LET k == First([i \in 1..Len(positions) |-> objs[cal][positions[i]].uid = uid])
    IN  IF k = 0 THEN 0 ELSE positions[k]

AllPositions(objs, cal) == [i \in 1..Len(events(objs, cal)) |-> i]

\* update_event: the first event with this uid gets the supplied fields and is saved
update_event(objs, href, cals, uid, title, description, location, start, end, calendar) ==
    LET cal == DefaultCalendar(cals, calendar)
        call == [Call("update_event",
                      [uid |-> uid, title |-> title, description |-> description,
                       location |-> location, start |-> start, end |-> end,
                       calendar |-> calendar])
                 EXCEPT !.cal = cal]
    IN  IF cal = 0 THEN Raise(objs, href, call, "AttributeError")
        ELSE LET k == FindUid(objs, cal, AllPositions(objs, cal), uid)
             IN  IF k = 0 THEN Outcome(objs, href, call)
                 ELSE Outcome(
                         save(objs, cal, k,
                              UpdatedEvent(objs[cal][k], title, description,
                                           location, start, end)),
                         href,
                         [call EXCEPT !.val = "object",
                                      !.items = <<objs[cal][k].href>>,
                                      !.saved = <<objs[cal][k].href>>])

delete_event_all(objs, href, cals, uid, calendar) ==
    LET cal == DefaultCalendar(cals, calendar)
        call == [Call("delete_event", [uid |-> uid, calendar |-> calendar])
                 EXCEPT !.cal = cal]
    IN  IF cal = 0 THEN Raise(objs, href, call, "AttributeError")
        ELSE LET hit == Positions([i \in 1..Len(objs[cal]) |->
                                      objs[cal][i].uid = uid])
                 keep == Positions([i \in 1..Len(objs[cal]) |->
                                      objs[cal][i].uid # uid])
             IN  IF hit = <<>>
                 THEN Outcome(objs, href, [call EXCEPT !.val = "False"])
                 ELSE Outcome(
                         [objs EXCEPT ![cal] =
                             [i \in 1..Len(keep) |-> objs[cal][keep[i]]]],
                         href,
                         [call EXCEPT !.val = "True",
                              !.deleted = [i \in 1..Len(hit) |->
                                              objs[cal][hit[i]].href]])

\* delete_event: the first event with this uid is deleted
delete_event(objs, href, cals, uid, calendar) ==
    LET cal == DefaultCalendar(cals, calendar)
        call == [Call("delete_event", [uid |-> uid, calendar |-> calendar])
                 EXCEPT !.cal = cal]
    IN  IF cal = 0 THEN Raise(objs, href, call, "AttributeError")
        ELSE LET k == FindUid(objs, cal, AllPositions(objs, cal), uid)
             IN  IF k = 0
                 THEN Outcome(objs, href, [call EXCEPT !.val = "False"])
                 ELSE Outcome(delete(objs, cal, k), href,
                         [call EXCEPT !.val = "True",
                                      !.deleted = <<objs[cal][k].href>>])

\* The text search_events matches against: summary + description + location,
\* lowercased
SearchText(ical) ==
    Lower(GetText(ical.summary) \o GetText(ical.description)
              \o GetText(ical.location))

SearchMatch_exact(query, ical) ==
    Contains(query,
             GetText(ical.summary) \o GetText(ical.description)
                 \o GetText(ical.location))

\* `if query.lower() in text`
SearchMatch(query, ical) == Contains(Lower(query), SearchText(ical))

\* search_events: the events whose text contains the query, in server order
search_events(objs, href, cals, query, calendar) ==
    LET cal == DefaultCalendar(cals, calendar)
        call == [Call("search_events", [query |-> query, calendar |-> calendar])
                 EXCEPT !.cal = cal]
    IN  IF cal = 0 THEN Raise(objs, href, call, "AttributeError")
        ELSE LET found == Positions([i \in 1..Len(events(objs, cal)) |->
                                        SearchMatch(query, objs[cal][i])])
             IN  Outcome(objs, href,
                     [call EXCEPT !.val = "list",
                                  !.items = [i \in 1..Len(found) |->
                                                objs[cal][found[i]].href]])

----------------------------------------------------------------------------
(* Task operations of the facade *)

\* `if not todo_calendar: todo_calendar = self.get_todo_calendar()`
DefaultTodoCalendar(cals, todo_calendar) ==
    IF todo_calendar = 0 THEN get_todo_calendar(cals) ELSE todo_calendar

TodoScan_all(objs, cal) == [i \in 1..Len(events(objs, cal)) |-> i]

\* The fallback of get_todos: the objects of events() whose kind is VTODO
TodoScan(objs, cal) ==
    Positions([i \in 1..Len(events(objs, cal)) |->
                  events(objs, cal)[i].name = "VTODO"])

\* The list get_todos returns, as positions in the task calendar (<<>> when no
\* task calendar resolves)
TodoList(objs, cals, todo_calendar) ==
    LET cal == DefaultTodoCalendar(cals, todo_calendar)
    IN  IF cal = 0 THEN <<>>
        ELSE IF cals[cal].native_todos THEN todos(objs, cal)
        ELSE TodoScan(objs, cal)

\* get_todos: the tasks of the task calendar
get_todos(objs, href, cals, todo_calendar) ==
    LET cal == DefaultTodoCalendar(cals, todo_calendar)
        found == TodoList(objs, cals, todo_calendar)
    IN  Outcome(objs, href,
            [Call("get_todos", [todo_calendar |-> todo_calendar])
             EXCEPT !.cal = cal, !.val = "list",
                    !.items = [i \in 1..Len(found) |-> objs[cal][found[i]].href]])

\* The VTODO create_todo builds from its arguments
NewTodo(title, description, tags, priority, due, now) ==
    [Component("VTODO") EXCEPT
        !.summary = Some(title),
        !.description = IF description # <<>> THEN Some(description) ELSE None,
        !.categories = IF tags # None /\ Val(tags) # <<>> THEN tags ELSE None,
        !.priority = Some(priority),
        !.status = Some("NEEDS-ACTION"),
        !.created = Some(now),
        !.due = IF TruthyTime(due) THEN due ELSE None]

\* create_todo: one new VTODO saved in the task calendar, None without one
create_todo(objs, href, cals, title, description, tags, priority, due, todo_calendar, now) ==
    LET cal == DefaultTodoCalendar(cals, todo_calendar)
        call == [Call("create_todo",
                      [title |-> title, description |-> description,
                       tags |-> tags, priority |-> priority, due |-> due,
                       todo_calendar |-> todo_calendar, now |-> now])
                 EXCEPT !.cal = cal]
    IN  IF cal = 0 THEN Outcome(objs, href, call)
        ELSE Outcome(
                save_event(objs, cal, href,
                           NewTodo(title, description, tags, priority, due, now)),
                href + 1,
                [call EXCEPT !.val = "object", !.items = <<href>>,
                             !.saved = <<href>>])

\* The assignments complete_todo makes to the matching component
Completed_reopen(ical, now) ==
    [ical EXCEPT
        !.status = IF @ = Some("COMPLETED") THEN Some("NEEDS-ACTION")
                   ELSE Some("COMPLETED"),
        !.completed = Some(now)]

Completed(ical, now) ==
    [ical EXCEPT !.status = Some("COMPLETED"), !.completed = Some(now)]

\* complete_todo: the first task with this uid is marked completed and saved
complete_todo(objs, href, cals, uid, todo_calendar, now) ==
    LET cal == DefaultTodoCalendar(cals, todo_calendar)
        call == [Call("complete_todo",
                      [uid |-> uid, todo_calendar |-> todo_calendar, now |-> now])
                 EXCEPT !.cal = cal]
        k == IF cal = 0 THEN 0
             ELSE FindUid(objs, cal, TodoList(objs, cals, cal), uid)
    IN  IF k = 0 THEN Outcome(objs, href, [call EXCEPT !.val = "False"])
        ELSE Outcome(save(objs, cal, k, Completed(objs[cal][k], now)), href,
                 [call EXCEPT !.val = "True", !.saved = <<objs[cal][k].href>>])

delete_todo_keep(objs, href, cals, uid, todo_calendar) ==
    LET cal == DefaultTodoCalendar(cals, todo_calendar)
        call == [Call("delete_todo", [uid |-> uid, todo_calendar |-> todo_calendar])
                 EXCEPT !.cal = cal]
        k == IF cal = 0 THEN 0
             ELSE FindUid(objs, cal, TodoList(objs, cals, cal), uid)
    IN  IF k = 0 THEN Outcome(objs, href, [call EXCEPT !.val = "False"])
        ELSE Outcome(objs, href, [call EXCEPT !.val = "True"])

\* delete_todo: the first task with this uid is deleted
delete_todo(objs, href, cals, uid, todo_calendar) ==
    LET cal == DefaultTodoCalendar(cals, todo_calendar)
        call == [Call("delete_todo", [uid |-> uid, todo_calendar |-> todo_calendar])
                 EXCEPT !.cal = cal]
        k == IF cal = 0 THEN 0
             ELSE FindUid(objs, cal, TodoList(objs, cals, cal), uid)
    IN  IF k = 0 THEN Outcome(objs, href, [call EXCEPT !.val = "False"])
        ELSE Outcome(delete(objs, cal, k), href,
                 [call EXCEPT !.val = "True", !.deleted = <<objs[cal][k].href>>])

----------------------------------------------------------------------------
(* Failures of the session *)

\* The requests a facade call sends to the session, in order, when the session
\* answers each of them: principal.calendars() to resolve a calendar that was not
\* passed, then the query on the resolved calendar, then the save() or delete()
\* of the object found
Requests(cals, call) ==
    LET resolve(arg) == IF arg = 0 THEN <<"calendars">> ELSE <<>>
        listing == IF call.cal = 0 THEN <<>>
                   ELSE IF cals[call.cal].native_todos THEN <<"todos">>
                   ELSE <<"events">>
        scan == IF call.cal = 0 THEN <<>> ELSE <<"events">>
    IN  CASE call.op \in {"get_calendars", "get_calendar", "get_todo_calendar"} ->
               <<"calendars">>
          [] call.op = "get_events" ->
               resolve(call.args.calendar)
                   \o (IF call.cal = 0 THEN <<>> ELSE <<"date_search">>)
          [] call.op = "create_event" ->
               resolve(call.args.calendar)
                   \o (IF call.saved = <<>> THEN <<>> ELSE <<"save_event">>)
          [] call.op = "update_event" ->
               resolve(call.args.calendar) \o scan
                   \o (IF call.saved = <<>> THEN <<>> ELSE <<"save">>)
          [] call.op = "delete_event" ->
               resolve(call.args.calendar) \o scan
                   \o (IF call.deleted = <<>> THEN <<>> ELSE <<"delete">>)
          [] call.op = "search_events" ->
               resolve(call.args.calendar) \o scan
          [] call.op = "get_todos" ->
               resolve(call.args.todo_calendar) \o listing
          [] call.op = "create_todo" ->
               resolve(call.args.todo_calendar)
                   \o (IF call.saved = <<>> THEN <<>> ELSE <<"save_event">>)
          [] call.op = "complete_todo" ->
               resolve(call.args.todo_calendar) \o listing
                   \o (IF call.saved = <<>> THEN <<>> ELSE <<"save">>)
          [] call.op = "delete_todo" ->
               resolve(call.args.todo_calendar) \o listing
                   \o (IF call.deleted = <<>> THEN <<>> ELSE <<"delete">>)
          [] OTHER -> <<>>

Caught_any(exc) == TRUE

\* `except AttributeError`, the one handler of the facade: it encloses
\* todo_calendar.todos() in get_todos
Caught(exc) == exc = "AttributeError"

\* The outcome of a facade call during which the session fails the request `at`
\* by raising exc; r is the outcome of the call when the session answers. A
\* request the call does not send cannot fail. An exception no handler catches
\* leaves the method where it was raised: nothing after it runs. The handler of
\* get_todos goes on with the scan of events(), which finds the same tasks.
Failing(objs, href, cals, r, at, exc) ==
    IF \A i \in 1..Len(Requests(cals, r.last)) : Requests(cals, r.last)[i] # at
    THEN r
    ELSE IF at = "todos" /\ Caught(exc)
         THEN [r EXCEPT !.last.failed = <<at, exc>>]
         ELSE Raise(objs, href,
                    [Call(r.last.op, r.last.args) EXCEPT
                        !.cal = IF at = "calendars" THEN 0 ELSE r.last.cal,
                        !.failed = <<at, exc>>],
                    exc)

----------------------------------------------------------------------------
(* Steps: one per call of the facade *)

Apply(r) ==
    /\ objects' = r.objects
    /\ nextHref' = r.nextHref
    /\ last' = r.last
    /\ UNCHANGED <<client, calendars, cli>>

\* YandexCalendarClient(token, username, password)
Construct(token, username, password) ==
    /\ client = "none"
    /\ LET r == YandexCalendarClient(token, username, password)
       IN  /\ client' = r.client
           /\ last' = [Call("__init__", [token |-> token, username |-> username,
                                         password |-> password])
                       EXCEPT !.exc = r.exc,
                              !.val = IF r.exc = "none" THEN "None" ELSE "raise"]
    /\ UNCHANGED <<calendars, objects, nextHref, cli>>

\* client.get_calendars()
GetCalendars ==
    /\ client # "none"
    /\ Apply(Outcome(objects, nextHref,
                [Call("get_calendars", [none |-> TRUE])
                 EXCEPT !.val = "list",
                        !.items = [i \in 1..Len(get_calendars(calendars)) |-> i]]))

\* client.get_calendar(name)
GetCalendar(name) ==
    /\ client # "none"
    /\ LET cal == get_calendar(calendars, name)
       IN  Apply(Outcome(objects, nextHref,
                [Call("get_calendar", [name |-> name])
                 EXCEPT !.cal = cal,
                        !.val = IF cal = 0 THEN "None" ELSE "object",
                        !.items = IF cal = 0 THEN <<>> ELSE <<cal>>]))

\* client.get_todo_calendar()
GetTodoCalendar ==
    /\ client # "none"
    /\ LET cal == get_todo_calendar(calendars)
       IN  Apply(Outcome(objects, nextHref,
                [Call("get_todo_calendar", [none |-> TRUE])
                 EXCEPT !.cal = cal,
                        !.val = IF cal = 0 THEN "None" ELSE "object",
                        !.items = IF cal = 0 THEN <<>> ELSE <<cal>>]))

----------------------------------------------------------------------------
(* SpecResolve: construction and calendar resolution over every calendar list *)

\* Sequences over S of length at most n
SeqUpTo(S, n) == UNION {[1..k -> S] : k \in 0..n}

Credentials == {None, Some(""), Some("secret")}

CalendarNames == {<<"A">>, <<"a">>, <<"b">>}

NameArgs == {None, Some(<<>>)} \cup {Some(n) : n \in CalendarNames}

\* Addresses: an event collection, the task collection, one that stops short of
\* the marker, one that spells it in capitals
CalendarUrls ==
    { <<"/", "e", "v", "/">>,
      <<"/", "t", "o", "d", "o", "s", "/">>,
      <<"/", "t", "o", "d", "o", "/">>,
      <<"/", "T", "O", "D", "O", "S", "/">> }

CalendarUniverse ==
    [name : CalendarNames, url : CalendarUrls, native_todos : {TRUE}]

NoObjects(cals) == [i \in 1..Len(cals) |-> <<>>]

InitResolve ==
    /\ client = "none"
    /\ calendars \in SeqUpTo(CalendarUniverse, MaxCals)
    /\ objects = NoObjects(calendars)
    /\ nextHref = 1
    /\ last = NoCall
    /\ cli = NoCli

ConstructAny == \E t, u, p \in Credentials : Construct(t, u, p)

GetCalendarAny == \E name \in NameArgs : GetCalendar(name)

NextResolve ==
    \/ ConstructAny
    \/ GetCalendars
    \/ GetCalendarAny
    \/ GetTodoCalendar

SpecResolve == InitResolve /\ [][NextResolve]_vars

\* A credential is supplied when it is given and not empty
Supplied(x) == x # None /\ Val(x) # ""

\* C1: construction raises ValueError exactly when neither a token nor a
\* username together with a password is supplied (a credential is supplied when
\* it is given and not empty); otherwise it succeeds and the facade holds one
\* session, the OAuth one when a token is supplied.
C1_ConstructionNeedsAuth ==
    last.op = "__init__" =>
        LET a == last.args
            auth == Supplied(a.token)
                       \/ (Supplied(a.username) /\ Supplied(a.password))
        IN  /\ (last.exc = "ValueError") <=> ~auth
            /\ (last.exc = "none") <=> auth
            /\ auth => client = (IF Supplied(a.token) THEN "oauth" ELSE "basic")
            /\ ~auth => client = "none"

\* A username without a password and no token was rejected
C1_Witness ==
    /\ last.op = "__init__"
    /\ last.args.token = None
    /\ last.args.username = Some("secret")
    /\ last.args.password = None
    /\ last.exc = "ValueError"
    /\ client = "none"

\* C2: get_calendar returns the first calendar in server order whose name equals
\* the given name exactly, None when a name is given and none matches, the first
\* calendar when no name is given (None or empty), and None for an empty list.
C2_GetCalendar ==
    last.op = "get_calendar" =>
        LET name == last.args.name
            given == name # None /\ Val(name) # <<>>
            r == last.cal
            n == Len(calendars)
        IN  /\ last.exc = "none"
            /\ last.val = (IF r = 0 THEN "None" ELSE "object")
            /\ last.items = (IF r = 0 THEN <<>> ELSE <<r>>)
            /\ r \in 0..n
            /\ n = 0 => r = 0
            /\ (n > 0 /\ ~given) => r = 1
            /\ (n > 0 /\ given /\ r > 0) =>
                   /\ calendars[r].name = Val(name)
                   /\ \A j \in 1..(r - 1) : calendars[j].name # Val(name)
            /\ (n > 0 /\ given /\ r = 0) =>
                   \A j \in 1..n : calendars[j].name # Val(name)

\* The second calendar was returned although the first one has the same name in
\* another case
C2_Witness ==
    /\ last.op = "get_calendar"
    /\ last.args.name = Some(<<"a">>)
    /\ Len(calendars) = 2
    /\ calendars[1].name = <<"A">>
    /\ last.items = <<2>>

\* C3: get_todo_calendar returns the first calendar in server order whose
\* address contains 'todos', and None when no address contains it, whatever other
\* calendars exist.
C3_GetTodoCalendar ==
    last.op = "get_todo_calendar" =>
        LET r == last.cal
            n == Len(calendars)
            IsTodo(j) == \E i \in 0..(Len(calendars[j].url) - 5) :
                            /\ calendars[j].url[i + 1] = "t"
                            /\ calendars[j].url[i + 2] = "o"
                            /\ calendars[j].url[i + 3] = "d"
                            /\ calendars[j].url[i + 4] = "o"
                            /\ calendars[j].url[i + 5] = "s"
        IN  /\ last.exc = "none"
            /\ last.val = (IF r = 0 THEN "None" ELSE "object")
            /\ last.items = (IF r = 0 THEN <<>> ELSE <<r>>)
            /\ r \in 0..n
            /\ r > 0 => IsTodo(r) /\ \A j \in 1..(r - 1) : ~IsTodo(j)
            /\ r = 0 => \A j \in 1..n : ~IsTodo(j)

\* Calendars exist, none is the task collection, and None was returned
C3_Witness ==
    /\ last.op = "get_todo_calendar"
    /\ Len(calendars) = 2
    /\ calendars[1].url = <<"/", "t", "o", "d", "o", "/">>
    /\ calendars[2].url = <<"/", "T", "O", "D", "O", "S", "/">>
    /\ last.val = "None"

----------------------------------------------------------------------------
(* SpecEvents: update_event and delete_event over every event list *)

\* client.update_event(uid, title, description, location, start, end, calendar)
UpdateEvent(uid, a, calendar) ==
    /\ client # "none"
    /\ Apply(update_event(objects, nextHref, calendars, uid, a.title,
                          a.description, a.location, a.start, a.end, calendar))

\* client.delete_event(uid, calendar)
DeleteEvent(uid, calendar) ==
    /\ client # "none"
    /\ Apply(delete_event(objects, nextHref, calendars, uid, calendar))

EventCalendar == [name |-> <<"A">>, url |-> <<"/", "e", "v", "/">>, native_todos |-> TRUE]

OtherCalendar == [name |-> <<"b">>, url |-> <<"/", "e", "v", "2", "/">>, native_todos |-> TRUE]

OldText == <<"o", "l", "d">>

\* An event as another client left it on the server
StoredEvent(uid, summary) ==
    [Component("VEVENT") EXCEPT
        !.uid = uid, !.summary = summary, !.description = Some(OldText),
        !.location = Some(OldText), !.dtstart = Some(600), !.dtend = Some(660),
        !.dtstamp = Some(0)]

EventUids == {"u1", "u2"}

EventUniverse == {StoredEvent(uid, Some(OldText)) : uid \in EventUids}

\* The events of a list get the identities 1, 2, ... in server order
Numbered(seq, base) == [i \in 1..Len(seq) |-> [seq[i] EXCEPT !.href = base + i]]

\* The fields update_event is called with: none, the title alone, description
\* and location, start and end, all five, and empty texts
UpdateArgs ==
    LET none == [title |-> None, description |-> None, location |-> None,
                 start |-> None, end |-> None]
    IN  { none,
          [none EXCEPT !.title = Some(<<"t">>)],
          [none EXCEPT !.description = Some(<<"d">>), !.location = Some(<<"l">>)],
          [none EXCEPT !.start = Some(720), !.end = Some(780)],
          [title |-> Some(<<"t">>), description |-> Some(<<"d">>),
           location |-> Some(<<"l">>), start |-> Some(720), end |-> Some(780)],
          [none EXCEPT !.title = Some(<<>>), !.description = Some(<<>>),
                       !.location = Some(<<>>)] }

InitEvents ==
    /\ client = "oauth"
    /\ calendars = <<EventCalendar, OtherCalendar>>
    /\ \E first \in SeqUpTo(EventUniverse, MaxEvents) :
          objects = <<Numbered(first, 0),
                      Numbered(<<StoredEvent("u1", Some(OldText))>>, MaxEvents)>>
    /\ nextHref = MaxEvents + 2
    /\ last = NoCall
    /\ cli = NoCli

UpdateEventAny ==
    \E uid \in EventUids, a \in UpdateArgs, calendar \in {0, 2} :
        UpdateEvent(uid, a, calendar)

DeleteEventAny ==
    \E uid \in EventUids, calendar \in {0, 2} : DeleteEvent(uid, calendar)

NextEvents ==
    \/ UpdateEventAny
    \/ DeleteEventAny

SpecEvents == InitEvents /\ [][NextEvents]_vars

\* The positions of calendar cal's objects whose uid is `uid`
UidMatches(objs, cal, uid) == {i \in 1..Len(objs[cal]) : objs[cal][i].uid = uid}

Min(S) == CHOOSE x \in S : \A y \in S : x <= y

\* What one step of update_event does to the calendar objects
C4_UpdateEventStep ==
    (last'.op = "update_event" /\ last'.exc = "none") =>
        LET a == last'.args
            c == last'.cal
            hits == UidMatches(objects, c, a.uid)
        IN  IF hits = {}
            THEN /\ last'.val = "None"
                 /\ last'.saved = <<>> /\ last'.deleted = <<>>
                 /\ objects' = objects
            ELSE LET k == Min(hits)
                     old == objects[c][k]
                     new == objects'[c][k]
                     Takes(arg, before, after) ==
                        IF arg # None /\ Val(arg) # <<>> THEN after = arg
                        ELSE after = before
                 IN  /\ last'.val = "object"
                     /\ last'.items = <<old.href>>
                     /\ last'.saved = <<old.href>> /\ last'.deleted = <<>>
                     /\ Len(objects') = Len(objects)
                     /\ \A d \in 1..Len(objects) :
                           /\ Len(objects'[d]) = Len(objects[d])
                           /\ \A i \in 1..Len(objects[d]) :
                                 (d # c \/ i # k) => objects'[d][i] = objects[d][i]
                     /\ Takes(a.title, old.summary, new.summary)
                     /\ Takes(a.description, old.description, new.description)
                     /\ Takes(a.location, old.location, new.location)
                     /\ IF a.start # None THEN new.dtstart = a.start
                        ELSE new.dtstart = old.dtstart
                     /\ IF a.end # None THEN new.dtend = a.end
                        ELSE new.dtend = old.dtend
                     /\ new = [old EXCEPT !.summary = new.summary,
                                          !.description = new.description,
                                          !.location = new.location,
                                          !.dtstart = new.dtstart,
                                          !.dtend = new.dtend]

\* C4: update_event changes only the first event whose uid matches: each
\* supplied (given and not empty) field takes the supplied value, each other field
\* keeps its value, the event is saved once and no other event changes; with no
\* match it returns None, changes nothing and saves nothing.
C4_UpdateEvent == [][C4_UpdateEventStep]_vars

\* The second of two events was given a new title and kept its description;
\* the first event is as it was stored
C4_Witness ==
    /\ last.op = "update_event"
    /\ last.args.uid = "u2"
    /\ last.args.title = Some(<<"t">>)
    /\ last.args.description = None
    /\ last.saved = <<2>>
    /\ Len(objects[1]) = 2
    /\ objects[1][1] = [StoredEvent("u1", Some(OldText)) EXCEPT !.href = 1]
    /\ objects[1][2].summary = Some(<<"t">>)
    /\ objects[1][2].description = Some(OldText)

\* What one step of delete_event does to the calendar objects
C8_DeleteEventStep ==
    (last'.op = "delete_event" /\ last'.exc = "none") =>
        LET a == last'.args
            c == last'.cal
            hits == UidMatches(objects, c, a.uid)
        IN  /\ last'.saved = <<>>
            /\ \A d \in 1..Len(objects) : d # c => objects'[d] = objects[d]
            /\ IF hits = {}
               THEN /\ last'.val = "False"
                    /\ last'.deleted = <<>>
                    /\ objects' = objects
               ELSE LET k == Min(hits)
                    IN  /\ last'.val = "True"
                        /\ last'.deleted = <<objects[c][k].href>>
                        /\ Len(objects'[c]) = Len(objects[c]) - 1
                        /\ \A i \in 1..(k - 1) : objects'[c][i] = objects[c][i]
                        /\ \A i \in (k + 1)..Len(objects[c]) :
                              objects'[c][i - 1] = objects[c][i]

\* C8: delete_event deletes exactly the first event in server order whose uid
\* matches and returns True; with no match it returns False and deletes nothing;
\* every other event, a later one with the same uid included, stays as it was and
\* nothing is saved.
C8_DeleteEvent == [][C8_DeleteEventStep]_vars

\* Of two events with the same uid the first was deleted and the second stays
C8_Witness ==
    /\ last.op = "delete_event"
    /\ last.args.uid = "u1"
    /\ last.val = "True"
    /\ last.deleted = <<1>>
    /\ Len(objects[1]) = 1
    /\ objects[1][1].href = 2
    /\ objects[1][1].uid = "u1"

----------------------------------------------------------------------------
(* SpecSearch: search_events over every event list and query *)

\* client.search_events(query, calendar)
SearchEvents(query, calendar) ==
    /\ client # "none"
    /\ Apply(search_events(objects, nextHref, calendars, query, calendar))

SearchUniverse ==
    { [StoredEvent("u1", summary) EXCEPT !.description = description,
                                         !.location = location] :
        summary \in {None, Some(<<"A">>), Some(<<"a", "b">>)},
        description \in {None, Some(<<"b">>)},
        location \in {None, Some(<<"A">>)} }

Queries ==
    { <<>>, <<"a">>, <<"A">>, <<"b">>, <<"a", "b">>, <<"B", "a">>, <<"b", "A">>,
      <<"a", "a">>, <<"A", "B", "B">> }

InitSearch ==
    /\ client = "oauth"
    /\ calendars = <<EventCalendar>>
    /\ \E first \in SeqUpTo(SearchUniverse, MaxEvents) :
          objects = <<Numbered(first, 0)>>
    /\ nextHref = MaxEvents + 1
    /\ last = NoCall
    /\ cli = NoCli

SearchEventsAny ==
    \E query \in Queries, calendar \in {0, 1} : SearchEvents(query, calendar)

NextSearch == SearchEventsAny

SpecSearch == InitSearch /\ [][NextSearch]_vars

\* C5: search_events returns exactly the events for which the lowercased query
\* occurs in the lowercased title + description + location (a missing field
\* being empty), in server order, none repeated and none dropped.
C5_SearchEvents ==
    (last.op = "search_events" /\ last.exc = "none") =>
        LET evs == objects[last.cal]
            q == last.args.query
            Text(e) == (IF e.summary = None THEN <<>> ELSE e.summary[1])
                           \o (IF e.description = None THEN <<>> ELSE e.description[1])
                           \o (IF e.location = None THEN <<>> ELSE e.location[1])
            Same(x, y) == \/ x = y
                          \/ {x, y} = {"A", "a"}
                          \/ {x, y} = {"B", "b"}
            Matches(e) ==
                \E off \in 0..(Len(Text(e)) - Len(q)) :
                    \A j \in 1..Len(q) : Same(Text(e)[off + j], q[j])
            Pos(h) == CHOOSE i \in 1..Len(evs) : evs[i].href = h
        IN  /\ last.val = "list"
            /\ \A i \in 1..Len(last.items) :
                  \E k \in 1..Len(evs) :
                      evs[k].href = last.items[i] /\ Matches(evs[k])
            /\ \A k \in 1..Len(evs) :
                  Matches(evs[k]) =>
                      \E i \in 1..Len(last.items) : last.items[i] = evs[k].href
            /\ \A i, j \in 1..Len(last.items) :
                  i < j => Pos(last.items[i]) < Pos(last.items[j])

\* A query in capitals matched the second event across the boundary of its
\* description and location, and not the first event
C5_Witness ==
    /\ last.op = "search_events"
    /\ last.args.query = <<"B", "a">>
    /\ Len(objects[1]) = 2
    /\ objects[1][2].summary = None
    /\ objects[1][2].description = Some(<<"b">>)
    /\ objects[1][2].location = Some(<<"A">>)
    /\ last.items = <<2>>

----------------------------------------------------------------------------
(* Spec: sequences of facade calls against a server that starts empty *)

\* client.get_events(calendar, start, end)
GetEvents(calendar, start, end) ==
    /\ client # "none"
    /\ Apply(get_events(objects, nextHref, calendars, calendar, start, end))

\* client.create_event(title, ..., calendar); the server stores at most
\* MaxObjects objects in a run of the model
CreateEvent(title, description, location, start, end, reminder_minutes, rrule, calendar, now) ==
    /\ client # "none"
    /\ nextHref <= MaxObjects
    /\ Apply(create_event(objects, nextHref, calendars, title, description,
                          location, start, end, reminder_minutes, rrule,
                          calendar, now))

\* client.get_todos(todo_calendar)
GetTodos(todo_calendar) ==
    /\ client # "none"
    /\ Apply(get_todos(objects, nextHref, calendars, todo_calendar))

\* client.create_todo(title, ..., todo_calendar)
CreateTodo(title, description, tags, priority, due, todo_calendar, now) ==
    /\ client # "none"
    /\ nextHref <= MaxObjects
    /\ Apply(create_todo(objects, nextHref, calendars, title, description, tags,
                         priority, due, todo_calendar, now))

\* client.complete_todo(uid, todo_calendar)
CompleteTodo(uid, todo_calendar, now) ==
    /\ client # "none"
    /\ Apply(complete_todo(objects, nextHref, calendars, uid, todo_calendar, now))

\* client.delete_todo(uid, todo_calendar)
DeleteTodo(uid, todo_calendar) ==
    /\ client # "none"
    /\ Apply(delete_todo(objects, nextHref, calendars, uid, todo_calendar))

TodoCalendar == [name |-> <<"b">>, url |-> <<"/", "t", "o", "d", "o", "s", "/">>, native_todos |-> TRUE]

\* A task collection whose calendar object has no todos() method
ScannedTodoCalendar == [TodoCalendar EXCEPT !.native_todos = FALSE]

\* The calendar lists the server may hold: none, events only, events and
\* tasks, and tasks first
Servers ==
    { <<>>,
      <<EventCalendar>>,
      <<EventCalendar, TodoCalendar>>,
      <<ScannedTodoCalendar, EventCalendar>> }

\* datetime.datetime.now(), in minutes: when objects are created, and when
\* tasks are completed
Today == {540}

Clock == {540, 545}

\* A calendar argument: None or one of the server's calendars
CalendarArgs == 0..Len(calendars)

UidArgs == {NewUid(h) : h \in 1..MaxObjects}

Init ==
    /\ client = "none"
    /\ calendars \in Servers
    /\ objects = NoObjects(calendars)
    /\ nextHref = 1
    /\ last = NoCall
    /\ cli = NoCli

ConstructSome ==
    \E t \in {None, Some("secret")}, u, p \in {None, Some("me")} : Construct(t, u, p)

GetCalendarSome == \E name \in {None, Some(<<"b">>)} : GetCalendar(name)

GetEventsSome ==
    \E calendar \in CalendarArgs, w \in {<<None, None>>, <<Some(0), Some(1440)>>} :
        GetEvents(calendar, w[1], w[2])

CreateEventSome ==
    \E now \in Today :
        CreateEvent(<<"t">>, <<>>, <<>>, None, None, None, None, 0, now)

UpdateEventSome ==
    \E uid \in UidArgs :
        UpdateEvent(uid, [title |-> Some(<<"n">>), description |-> None,
                          location |-> None, start |-> None, end |-> None], 0)

DeleteEventSome == \E uid \in UidArgs : DeleteEvent(uid, 0)

SearchEventsSome ==
    \E query \in {<<"T">>}, calendar \in CalendarArgs : SearchEvents(query, calendar)

GetTodosSome == \E todo_calendar \in CalendarArgs : GetTodos(todo_calendar)

CreateTodoSome ==
    \E now \in Today : CreateTodo(<<"t">>, <<>>, None, 5, None, 0, now)

CompleteTodoSome ==
    \E uid \in UidArgs, now \in Clock : CompleteTodo(uid, 0, now)

DeleteTodoSome == \E uid \in UidArgs : DeleteTodo(uid, 0)

Next ==
    \/ ConstructSome
    \/ GetCalendars
    \/ GetCalendarSome
    \/ GetTodoCalendar
    \/ GetEventsSome
    \/ CreateEventSome
    \/ UpdateEventSome
    \/ DeleteEventSome
    \/ SearchEventsSome
    \/ GetTodosSome
    \/ CreateTodoSome
    \/ CompleteTodoSome
    \/ DeleteTodoSome

Spec == Init /\ [][Next]_vars

\* The task objects of calendar cal, as positions, and those with a given uid
TaskPositions(objs, cal) ==
    IF cal = 0 THEN {} ELSE {i \in 1..Len(objs[cal]) : objs[cal][i].name = "VTODO"}

TaskMatches(objs, cal, uid) == {i \in TaskPositions(objs, cal) : objs[cal][i].uid = uid}

\* Calendar c's objects after a step are those before it without position k
Removed(before, after, k) ==
    /\ Len(after) = Len(before) - 1
    /\ \A i \in 1..(k - 1) : after[i] = before[i]
    /\ \A i \in (k + 1)..Len(before) : after[i - 1] = before[i]

\* What one step of create_todo, complete_todo and delete_todo does
C6_TaskLifecycleStep ==
    /\ (last'.op = "create_todo" /\ last'.val = "object") =>
          /\ last'.saved = <<nextHref>>
          /\ objects'[last'.cal] =
                Append(objects[last'.cal], objects'[last'.cal][Len(objects'[last'.cal])])
          /\ LET t == objects'[last'.cal][Len(objects'[last'.cal])]
             IN  /\ t.href = nextHref
                 /\ t.name = "VTODO"
                 /\ t.status = Some("NEEDS-ACTION")
                 /\ t.completed = None
    /\ last'.op = "complete_todo" =>
          LET c == last'.cal
              hits == TaskMatches(objects, c, last'.args.uid)
          IN  IF hits = {}
              THEN last'.val = "False" /\ objects' = objects /\ last'.saved = <<>>
              ELSE LET k == Min(hits)
                   IN  /\ last'.val = "True"
                       /\ last'.saved = <<objects[c][k].href>>
                       /\ objects' = [objects EXCEPT ![c][k] =
                             [@ EXCEPT !.status = Some("COMPLETED"),
                                       !.completed = Some(last'.args.now)]]
    /\ last'.op = "delete_todo" =>
          LET c == last'.cal
              hits == TaskMatches(objects, c, last'.args.uid)
          IN  IF hits = {}
              THEN last'.val = "False" /\ objects' = objects /\ last'.deleted = <<>>
              ELSE LET k == Min(hits)
                   IN  /\ last'.val = "True"
                       /\ last'.deleted = <<objects[c][k].href>>
                       /\ Removed(objects[c], objects'[c], k)
                       /\ \A d \in 1..Len(objects) : d # c => objects'[d] = objects[d]
    /\ (/\ last.op = "delete_todo" /\ last.val = "True"
        /\ last'.op \in {"complete_todo", "delete_todo"}
        /\ last'.args.uid = last.args.uid) => last'.val = "False"

\* C6: a task saved by create_todo has status NEEDS-ACTION; complete_todo(uid) on
\* a task returns True, sets its status to COMPLETED and its completion time and
\* saves it; delete_todo(uid) on a task returns True and removes it, and the next
\* complete_todo(uid) or delete_todo(uid) returns False; delete_todo on a uid no
\* task has returns False and deletes nothing.
C6_TaskLifecycle == [][C6_TaskLifecycleStep]_vars

\* A task made by create_todo has been completed: it is saved with status
\* COMPLETED and the completion time of the call
C6_Witness ==
    /\ last.op = "complete_todo"
    /\ last.val = "True"
    /\ \E i \in 1..Len(objects[last.cal]) :
          /\ <<objects[last.cal][i].href>> = last.saved
          /\ objects[last.cal][i].created # None
          /\ objects[last.cal][i].status = Some("COMPLETED")
          /\ objects[last.cal][i].completed = Some(last.args.now)

FacadeOperations ==
    {"get_events", "create_event", "update_event", "delete_event", "search_events",
     "get_todos", "create_todo", "complete_todo", "delete_todo"}

\* A step of a facade operation that finds no calendar or no object
C7_NotFoundStep ==
    LET op == last'.op
        c == last'.cal
        nouid == \/ /\ op \in {"update_event", "delete_event"}
                    /\ UidMatches(objects, c, last'.args.uid) = {}
                 \/ /\ op \in {"complete_todo", "delete_todo"}
                    /\ TaskMatches(objects, c, last'.args.uid) = {}
    IN  (op \in FacadeOperations /\ (c = 0 \/ nouid)) =>
            /\ last'.exc = "none"
            /\ last'.val \in {"list", "None", "False"}
            /\ last'.saved = <<>> /\ last'.deleted = <<>>
            /\ objects' = objects

\* C7: a facade operation for which no calendar resolves, or whose uid no
\* object has, reports it as an empty, None or False result and raises nothing.
C7_NotFoundIsAResult == [][C7_NotFoundStep]_vars

\* How a step may change the status of the tasks it keeps
C10_StatusStep ==
    \A c \in 1..Len(objects) : \A i \in 1..Len(objects[c]) :
        objects[c][i].name = "VTODO" =>
            \A d \in 1..Len(objects') : \A j \in 1..Len(objects'[d]) :
                objects'[d][j].href = objects[c][i].href =>
                    \/ objects'[d][j].status = objects[c][i].status
                    \/ /\ objects[c][i].status = Some("NEEDS-ACTION")
                       /\ objects'[d][j].status = Some("COMPLETED")

\* C10: over every step, a task's status either stays as it is or goes from
\* NEEDS-ACTION to COMPLETED.
C10_StatusMonotonic == [][C10_StatusStep]_vars

\* update_event has saved a completed task, which is still completed
C10_Witness ==
    /\ last.op = "update_event"
    /\ last.val = "object"
    /\ \E i \in 1..Len(objects[last.cal]) :
          /\ <<objects[last.cal][i].href>> = last.saved
          /\ objects[last.cal][i].name = "VTODO"
          /\ objects[last.cal][i].summary = Some(<<"n">>)
          /\ objects[last.cal][i].status = Some("COMPLETED")

\* The identities of calendar cal's objects of one kind, in server order
RECURSIVE OfKind(_, _)
OfKind(seq, kind) ==
    IF seq = <<>> THEN <<>>
    ELSE IF seq[1].name = kind THEN <<seq[1].href>> \o OfKind(Tail(seq), kind)
    ELSE OfKind(Tail(seq), kind)

\* C11: get_todos returns the result of the calendar's todos() query when the
\* calendar has one; without it, it returns exactly the task calendar's objects
\* whose kind is VTODO, in server order, and no object of another kind; when no
\* task calendar resolves it returns the empty list and sends no calendar a
\* query.
C11_GetTodos ==
    last.op = "get_todos" =>
        /\ last.exc = "none"
        /\ last.val = "list"
        /\ last.saved = <<>> /\ last.deleted = <<>>
        /\ last.cal = IF last.args.todo_calendar # 0 THEN last.args.todo_calendar
                      ELSE get_todo_calendar(calendars)
        /\ IF last.cal = 0
           THEN /\ last.items = <<>>
                /\ \A i \in 1..Len(Requests(calendars, last)) :
                      Requests(calendars, last)[i] = "calendars"
           ELSE IF calendars[last.cal].native_todos
                THEN last.items = [i \in 1..Len(todos(objects, last.cal)) |->
                                      objects[last.cal][todos(objects, last.cal)[i]].href]
                ELSE last.items = OfKind(objects[last.cal], "VTODO")

\* The fallback scanned a task calendar that holds an event and a task, and
\* returned the task alone
C11_Witness ==
    /\ last.op = "get_todos"
    /\ last.cal # 0
    /\ ~calendars[last.cal].native_todos
    /\ \E i, j \in 1..Len(objects[last.cal]) :
          /\ objects[last.cal][i].name = "VEVENT"
          /\ objects[last.cal][j].name = "VTODO"
          /\ last.items = <<objects[last.cal][j].href>>

\* The operations of the facade that only read
ReadOnlyOperations ==
    {"get_calendars", "get_calendar", "get_todo_calendar", "get_events",
     "search_events", "get_todos"}

\* A step of a read-only operation
C16_ReadOnlyStep ==
    last'.op \in ReadOnlyOperations =>
        /\ objects' = objects
        /\ calendars' = calendars
        /\ nextHref' = nextHref
        /\ last'.saved = <<>>
        /\ last'.deleted = <<>>

\* C16: get_calendars, get_calendar, get_todo_calendar, get_events,
\* search_events and get_todos leave the server as it was: no object is saved,
\* deleted or changed in any field by any such call, so the events and tasks and
\* all their fields are the same after any sequence of them as before.
C16_ReadOnly == [][C16_ReadOnlyStep]_vars

\* get_events returned an event of a calendar that also holds a completed task
C16_Witness ==
    /\ last.op = "get_events"
    /\ last.cal # 0
    /\ \E i, j \in 1..Len(objects[last.cal]) :
          /\ last.items = <<objects[last.cal][i].href>>
          /\ objects[last.cal][j].status = Some("COMPLETED")

----------------------------------------------------------------------------
(* SpecCreate: create_event over its optional arguments *)

\* The start and end a call may pass
StartArgs == {None, Some(600)}

EndArgs == {None, Some(700)}

\* reminder_minutes: not given, at the start itself, a quarter of an hour before
ReminderArgs == {None, Some(0), Some(15)}

\* rrule: not given, empty, a rule, a text that is no rule
RuleArgs == {None, Some(""), Some("FREQ=DAILY"), Some("BAD")}

CreateEventAny ==
    \E start \in StartArgs, end \in EndArgs, reminder_minutes \in ReminderArgs,
       rrule \in RuleArgs, now \in Clock :
        CreateEvent(<<"t">>, <<>>, <<>>, start, end, reminder_minutes, rrule, 0, now)

NextCreate ==
    \/ ConstructSome
    \/ CreateEventAny

SpecCreate == Init /\ [][NextCreate]_vars

\* What one step of create_event on a resolved calendar, with no rule or one
\* that parses, does to the calendar objects
C12_CreateEventStep ==
    (/\ last'.op = "create_event"
     /\ last'.cal # 0
     /\ last'.args.rrule # Some("BAD")) =>
        LET c == last'.cal
            a == last'.args
            new == objects'[c][Len(objects'[c])]
        IN  /\ last'.exc = "none"
            /\ last'.saved = <<nextHref>>
            /\ objects' = [objects EXCEPT ![c] = Append(@, new)]
            /\ new.name = "VEVENT"
            /\ new.href = nextHref
            /\ new.summary = Some(a.title)
            /\ new.dtstart = IF a.start = None THEN Some(a.now) ELSE a.start
            /\ new.dtend = IF a.end = None THEN Some(Val(new.dtstart) + 60)
                           ELSE a.end
            /\ new.alarms = IF a.reminder_minutes = None THEN <<>>
                            ELSE <<[action |-> "DISPLAY",
                                    trigger |-> 0 - Val(a.reminder_minutes)]>>
            /\ new.rrule = IF Supplied(a.rrule) THEN a.rrule ELSE None

\* C12: create_event saves exactly one object built from its arguments: start
\* is the current time when omitted, end is start + 1 hour when omitted, the
\* event carries exactly one display alarm triggered reminder_minutes before the
\* start for every reminder_minutes given and none when it is omitted, and the
\* recurrence rule is attached when one is given and none otherwise.
C12_CreateEvent == [][C12_CreateEventStep]_vars

\* The same with a reminder of 0 minutes left out
C12_UnlessZeroReminder ==
    [][\/ last'.op = "create_event" /\ last'.args.reminder_minutes = Some(0)
       \/ C12_CreateEventStep]_vars

----------------------------------------------------------------------------
(* SpecFaults: facade calls against a session that may fail a request *)

\* The requests of the session: principal.calendars(), calendar.date_search(),
\* calendar.events(), calendar.todos(), calendar.save_event(), event.save(),
\* event.delete()
SessionRequests ==
    {"calendars", "date_search", "events", "todos", "save_event", "save", "delete"}

\* What a failing request raises: the server answered with an error, the
\* connection broke
SessionFailures == {"DAVError", "ConnectionError"}

\* A facade call with outcome r when the session answers, made while the session
\* answers every request ("none") or fails one of those the call sends
Fail(r) ==
    \E at \in {"none"} \cup {q \in SessionRequests :
                                 \E i \in 1..Len(Requests(calendars, r.last)) :
                                     Requests(calendars, r.last)[i] = q},
       exc \in SessionFailures :
        Apply(Failing(objects, nextHref, calendars, r, at, exc))

\* The uid of the object stored first
FirstUid == {NewUid(1)}

GetEventsFailing ==
    /\ client # "none"
    /\ Fail(get_events(objects, nextHref, calendars, 0, None, None))

CreateEventFailing ==
    /\ client # "none"
    /\ nextHref <= MaxObjects
    /\ \E now \in Today :
          Fail(create_event(objects, nextHref, calendars, <<"t">>, <<>>, <<>>, None,
                            None, None, None, 0, now))

UpdateEventFailing ==
    /\ client # "none"
    /\ \E uid \in FirstUid :
          Fail(update_event(objects, nextHref, calendars, uid, Some(<<"n">>), None,
                            None, None, None, 0))

DeleteEventFailing ==
    /\ client # "none"
    /\ \E uid \in FirstUid : Fail(delete_event(objects, nextHref, calendars, uid, 0))

SearchEventsFailing ==
    /\ client # "none"
    /\ Fail(search_events(objects, nextHref, calendars, <<"T">>, 0))

GetTodosFailing ==
    /\ client # "none"
    /\ Fail(get_todos(objects, nextHref, calendars, 0))

CreateTodoFailing ==
    /\ client # "none"
    /\ nextHref <= MaxObjects
    /\ \E now \in Today :
          Fail(create_todo(objects, nextHref, calendars, <<"t">>, <<>>, None, 5, None,
                           0, now))

CompleteTodoFailing ==
    /\ client # "none"
    /\ \E uid \in FirstUid, now \in Today :
          Fail(complete_todo(objects, nextHref, calendars, uid, 0, now))

DeleteTodoFailing ==
    /\ client # "none"
    /\ \E uid \in FirstUid : Fail(delete_todo(objects, nextHref, calendars, uid, 0))

NextFaults ==
    \/ ConstructSome
    \/ GetEventsFailing
    \/ CreateEventFailing
    \/ UpdateEventFailing
    \/ DeleteEventFailing
    \/ SearchEventsFailing
    \/ GetTodosFailing
    \/ CreateTodoFailing
    \/ CompleteTodoFailing
    \/ DeleteTodoFailing

SpecFaults == Init /\ [][NextFaults]_vars

\* A step during which the session failed a request
C13_FailureStep ==
    last'.failed # <<>> =>
        /\ last'.exc = last'.failed[2]
        /\ last'.val = "raise"
        /\ last'.items = <<>>
        /\ last'.saved = <<>> /\ last'.deleted = <<>>
        /\ objects' = objects
        /\ nextHref' = nextHref

----------------------------------------------------------------------------
(* main(): the command dispatcher *)

\* What a run of main() leaves behind: json is the number of JSON documents
\* printed to standard output, stderr the message printed to the error stream
\* ("" when none), exit the exit code
Run(command, json, stderr, exit) ==
    [command |-> command, json |-> json, stderr |-> stderr, exit |-> exit]

\* print(json.dumps(...)) as the last statement of a branch
Printed(command) == Run(command, 1, "", 0)

\* print("Error: ...", file=sys.stderr); sys.exit(1)
Failed(command, message) == Run(command, 0, message, 1)

Except_no_exit(command, exc) == Run(command, 0, "Error: " \o exc, 0)

\* except Exception as e: the message and the traceback are printed, exit code 1
Except(command, exc) == Run(command, 0, "Error: " \o exc, 1)

\* parse_date: a date argument is [ok |-> whether dateutil accepts it,
\* dt |-> the datetime it stands for]
parse_date(date_str) ==
    IF date_str.ok THEN [exc |-> "none", dt |-> date_str.dt]
    ELSE [exc |-> "ValueError", dt |-> 0]

\* Optional date argument `parse_date(x) if x else default`
ParseOr(arg, default) ==
    IF arg = None THEN [exc |-> "none", dt |-> default] ELSE parse_date(Val(arg))

\* `args.description or ""`
OrEmpty(arg) == IF arg = None THEN <<>> ELSE Val(arg)

Midnight_now(now) == now

\* now.replace(hour=0, minute=0, second=0, microsecond=0)
Midnight(now) == now - (now % 1440)

Authenticated(args) ==
    Truthy(args.token) \/ (Truthy(args.username) /\ Truthy(args.password))

Result(r, run) ==
    [objects |-> r.objects, nextHref |-> r.nextHref, last |-> r.last, cli |-> run]

\* The branch of main() for each command, given an authenticated client
Dispatch(objs, href, cals, args, now) ==
    LET cmd == args.command
        idle == Outcome(objs, href, NoCall)
        \* the call's result r printed as JSON, or the exception it raised caught
        Report(r, notfound) ==
            IF r.last.exc # "none" THEN Result(r, Except(cmd, r.last.exc))
            ELSE IF r.last.val \in {"None", "False"}
                 THEN Result(r, Failed(cmd, notfound))
                 ELSE Result(r, Printed(cmd))
        DateError == Result(idle, Except(cmd, "ValueError"))
        NoCalendar(first) ==
            Result(Outcome(objs, href,
                       [Call("get_calendar", [name |-> first]) EXCEPT !.val = "None"]),
                   Failed(cmd, "Error: No calendar found"))
    IN  CASE cmd = "list-calendars" ->
               Result(Outcome(objs, href,
                          [Call("get_calendars", [none |-> TRUE])
                           EXCEPT !.val = "list",
                                  !.items = [i \in 1..Len(get_calendars(cals)) |-> i]]),
                      Printed(cmd))
          [] cmd = "events" ->
               LET from == IF args.today THEN [exc |-> "none", dt |-> Midnight(now)]
                           ELSE ParseOr(args.from_date, now)
                   to == IF args.today THEN [exc |-> "none", dt |-> from.dt + 1440]
                         ELSE ParseOr(args.to_date, from.dt + 10080)
                   calendar == get_calendar(cals, args.calendar)
               IN  IF from.exc # "none" \/ to.exc # "none" THEN DateError
                   ELSE IF calendar = 0 THEN NoCalendar(args.calendar)
                   ELSE Report(get_events(objs, href, cals, calendar,
                                          Some(from.dt), Some(to.dt)), "")
          [] cmd = "create" ->
               LET start == ParseOr(args.start, now)
                   end == ParseOr(args.end, start.dt + 60)
               IN  IF start.exc # "none" \/ end.exc # "none" THEN DateError
                   ELSE Report(create_event(objs, href, cals, args.title,
                                   OrEmpty(args.description), OrEmpty(args.location),
                                   Some(start.dt), Some(end.dt), args.reminder,
                                   args.rrule, 0, now),
                               "Error: Failed to create event")
          [] cmd = "update" ->
               LET start == IF args.start = None THEN [exc |-> "none", dt |-> None]
                            ELSE [exc |-> parse_date(Val(args.start)).exc,
                                  dt |-> Some(parse_date(Val(args.start)).dt)]
                   end == IF args.end = None THEN [exc |-> "none", dt |-> None]
                          ELSE [exc |-> parse_date(Val(args.end)).exc,
                                dt |-> Some(parse_date(Val(args.end)).dt)]
               IN  IF start.exc # "none" \/ end.exc # "none" THEN DateError
                   ELSE Report(update_event(objs, href, cals, args.uid, args.title,
                                   args.description, args.location, start.dt,
                                   end.dt, 0),
                               "Error: Event not found")
          [] cmd = "delete" ->
               Report(delete_event(objs, href, cals, args.uid, 0),
                      "Error: Event not found")
          [] cmd = "search" ->
               LET calendar == get_calendar(cals, None)
               IN  IF calendar = 0 THEN NoCalendar(None)
                   ELSE Report(search_events(objs, href, cals, args.query, calendar), "")
          [] cmd = "list-todos" ->
               Report(get_todos(objs, href, cals, 0), "")
          [] cmd = "create-todo" ->
               LET due == IF args.due = None THEN [exc |-> "none", dt |-> None]
                          ELSE [exc |-> parse_date(Val(args.due)).exc,
                                dt |-> Some(parse_date(Val(args.due)).dt)]
               IN  IF due.exc # "none" THEN DateError
                   ELSE Report(create_todo(objs, href, cals, args.title,
                                   OrEmpty(args.description), Some(args.tags),
                                   args.priority, due.dt, 0, now),
                               "Error: Failed to create todo")
          [] cmd = "complete-todo" ->
               Report(complete_todo(objs, href, cals, args.uid, 0, now),
                      "Error: Todo not found")
          [] cmd = "delete-todo" ->
               Report(delete_todo(objs, href, cals, args.uid, 0),
                      "Error: Todo not found")
          [] OTHER ->
               Result(idle, Failed(cmd, "Unknown command: " \o cmd))

\* main(), after argument parsing: the client is made from the credentials, one
\* command is dispatched
main(objs, href, cals, args, now) ==
    IF ~Authenticated(args)
    THEN Result(Outcome(objs, href, NoCall),
                Failed(args.command, "Error: Authentication required."))
    ELSE Dispatch(objs, href, cals, args, now)

----------------------------------------------------------------------------
(* SpecCli: sequences of runs of main() against a server that starts empty *)

\* One run of main() with the parsed arguments args
RunMain(args, now) ==
    /\ args.command \in {"create", "create-todo"} => nextHref <= MaxObjects
    /\ LET r == main(objects, nextHref, calendars, args, now)
       IN  /\ objects' = r.objects
           /\ nextHref' = r.nextHref
           /\ last' = r.last
           /\ cli' = r.cli
    /\ UNCHANGED <<client, calendars>>

\* The credentials of a run: a token, a username and password, a username
\* alone, an empty token
AuthArgs ==
    { [token |-> Some("secret"), username |-> None, password |-> None],
      [token |-> None, username |-> Some("me"), password |-> Some("pw")],
      [token |-> None, username |-> Some("me"), password |-> None],
      [token |-> Some(""), username |-> None, password |-> None] }

\* argparse's namespace with every option at its default
Namespace(auth, command) ==
    [token |-> auth.token, username |-> auth.username, password |-> auth.password,
     command |-> command, today |-> FALSE, from_date |-> None, to_date |-> None,
     calendar |-> None, title |-> None, description |-> None, location |-> None,
     start |-> None, end |-> None, reminder |-> None, rrule |-> None, uid |-> "",
     query |-> <<>>, tags |-> <<>>, priority |-> 5, due |-> None]

GoodDate == Some([ok |-> TRUE, dt |-> 600])

BadDate == Some([ok |-> FALSE, dt |-> 0])

\* The credentials most runs are tried with: a token, a username alone
SomeAuthArgs == {a \in AuthArgs : a.password = None /\ a.token # Some("")}

CliListCalendars ==
    \E auth \in AuthArgs, now \in Today :
        RunMain(Namespace(auth, "list-calendars"), now)

CliEvents ==
    \E auth \in SomeAuthArgs, now \in Today, today \in BOOLEAN,
       from_date \in {None, GoodDate, BadDate},
       calendar \in {None, Some(<<"b">>), Some(<<"z">>)} :
        /\ today => from_date = None
        /\ RunMain([Namespace(auth, "events") EXCEPT
                       !.today = today, !.from_date = from_date,
                       !.calendar = calendar], now)

CliCreate ==
    \E auth \in SomeAuthArgs, now \in Today, start \in {None, BadDate},
       opt \in { <<None, None>>, <<Some(15), Some("FREQ=DAILY")>>,
                 <<Some(0), None>>, <<None, Some("BAD")>> } :
        RunMain([Namespace(auth, "create") EXCEPT
                    !.title = <<"t">>, !.start = start, !.reminder = opt[1],
                    !.rrule = opt[2]], now)

CliUpdate ==
    \E auth \in SomeAuthArgs, now \in Today, uid \in UidArgs,
       title \in {None, Some(<<"n">>)}, start \in {None, BadDate} :
        RunMain([Namespace(auth, "update") EXCEPT
                    !.uid = uid, !.title = title, !.start = start], now)

CliDelete ==
    \E auth \in SomeAuthArgs, now \in Today, uid \in UidArgs :
        RunMain([Namespace(auth, "delete") EXCEPT !.uid = uid], now)

CliSearch ==
    \E auth \in SomeAuthArgs, now \in Today, query \in {<<"T">>, <<"z">>} :
        RunMain([Namespace(auth, "search") EXCEPT !.query = query], now)

CliListTodos ==
    \E auth \in SomeAuthArgs, now \in Today :
        RunMain(Namespace(auth, "list-todos"), now)

CliCreateTodo ==
    \E auth \in SomeAuthArgs, now \in Today, due \in {None, BadDate} :
        RunMain([Namespace(auth, "create-todo") EXCEPT
                    !.title = <<"t">>, !.due = due], now)

CliCompleteTodo ==
    \E auth \in SomeAuthArgs, now \in Today, uid \in UidArgs :
        RunMain([Namespace(auth, "complete-todo") EXCEPT !.uid = uid], now)

CliDeleteTodo ==
    \E auth \in SomeAuthArgs, now \in Today, uid \in UidArgs :
        RunMain([Namespace(auth, "delete-todo") EXCEPT !.uid = uid], now)

NextCli ==
    \/ CliListCalendars
    \/ CliEvents
    \/ CliCreate
    \/ CliUpdate
    \/ CliDelete
    \/ CliSearch
    \/ CliListTodos
    \/ CliCreateTodo
    \/ CliCompleteTodo
    \/ CliDeleteTodo

SpecCli == Init /\ [][NextCli]_vars

\* C9: every run of main() ends either with exactly one JSON document on
\* standard output and exit code 0, or with a message on the error stream, exit
\* code 1 and no JSON document on standard output.
C9_OneOutcome ==
    cli.command # "none" =>
        \/ cli.exit = 0 /\ cli.json = 1
        \/ cli.exit = 1 /\ cli.json = 0 /\ cli.stderr # ""

\* An exception raised inside the facade ended the run with a message and 1
C9_Witness ==
    /\ cli.command = "update"
    /\ last.op = "update_event"
    /\ last.exc = "AttributeError"
    /\ cli.stderr = "Error: AttributeError"
    /\ cli.exit = 1
    /\ cli.json = 0

\* The messages main() prints itself when a lookup finds nothing
NotFoundMessages ==
    {"Error: No calendar found", "Error: Event not found", "Error: Todo not found",
     "Error: Failed to create event", "Error: Failed to create todo"}

\* A run of main() in which a lookup found nothing: no calendar resolved, or no
\* event or task of the calendar has the uid
C14_NotFoundStep ==
    LET op == last'.op
        c == last'.cal
        nocal == \/ op = "get_calendar" /\ last'.val = "None"
                 \/ op \in FacadeOperations /\ last'.failed = <<>> /\ c = 0
        nouid == /\ c # 0
                 /\ \/ /\ op \in {"update_event", "delete_event"}
                       /\ UidMatches(objects, c, last'.args.uid) = {}
                    \/ /\ op \in {"complete_todo", "delete_todo"}
                       /\ TaskMatches(objects, c, last'.args.uid) = {}
    IN  (nocal \/ nouid) =>
            /\ cli'.exit = 1
            /\ cli'.json = 0
            /\ cli'.stderr \in NotFoundMessages

\* C14: at the command line every lookup that finds nothing (no calendar, no
\* calendar of the name given, no task calendar, no event or task with the uid)
\* ends the run with one of main()'s own not-found messages on the error stream
\* and exit code 1, never with a JSON result and never with the message of an
\* exception.
C14_NotFoundReported == [][C14_NotFoundStep]_vars

\* The same with the runs left out in which list-todos finds no task calendar or
\* create, update or delete finds no calendar
C14_UnlessUnguarded ==
    [][\/ last'.op \in {"get_todos", "create_event", "update_event", "delete_event"}
             /\ last'.cal = 0
       \/ C14_NotFoundStep]_vars

----------------------------------------------------------------------------
(* SpecToday: `events --today` on days with events, at several times of day *)

\* datetime.datetime.now() of a run: midnight, the morning, the last minute of
\* the day, the next midnight, the next afternoon
Moments == {0, 539, 1439, 1440, 2000}

TokenAuth == [token |-> Some("secret"), username |-> None, password |-> None]

\* events --today, with no --calendar
TodayArgs == [Namespace(TokenAuth, "events") EXCEPT !.today = TRUE]

\* create --title t: an event of one hour that starts now
CliCreateNow ==
    \E now \in Moments :
        RunMain([Namespace(TokenAuth, "create") EXCEPT !.title = <<"t">>], now)

CliEventsToday ==
    \E now \in Moments, calendar \in {None, Some(<<"b">>)} :
        RunMain([TodayArgs EXCEPT !.calendar = calendar], now)

NextToday ==
    \/ CliCreateNow
    \/ CliEventsToday

SpecToday == Init /\ [][NextToday]_vars

\* The midnight that begins the day of `now`
DayStart(now) == CHOOSE s \in 0..now : s % 1440 = 0 /\ now < s + 1440

\* A run of events --today, at any moment, on an account with a calendar
C15_TodayStep ==
    \A now \in Moments :
        (calendars # <<>> /\ RunMain(TodayArgs, now)) =>
            LET start == DayStart(now)
                found == date_search(objects, 1, Some(start), Some(start + 1440))
            IN  /\ last'.op = "get_events"
                /\ last'.cal = 1
                /\ last'.args.start = Some(start)
                /\ last'.args.end = Some(start + 1440)
                /\ last'.range = <<Some(start), Some(start + 1440)>>
                /\ last'.items = [i \in 1..Len(found) |-> objects[1][found[i]].href]
                /\ last'.exc = "none"
                /\ cli'.json = 1 /\ cli'.exit = 0

\* C15: events --today with no --calendar computes start = local midnight of
\* the current day and end = start + 1 day, resolves the first calendar, hands
\* exactly that start and end to the calendar's range query, and get_events
\* returns the query's result unchanged.
C15_TodayWindow == [][C15_TodayStep]_vars

\* A run on the second day asked for the window of that day and got the event
\* that reaches into it, not the one of the morning before
C15_Witness ==
    /\ cli.command = "events"
    /\ last.op = "get_events"
    /\ last.args.calendar = 1
    /\ last.range = <<Some(1440), Some(2880)>>
    /\ Len(objects[1]) = 2
    /\ objects[1][1].dtstart = Some(539)
    /\ objects[1][2].dtstart = Some(1439)
    /\ last.items = <<objects[1][2].href>>

====
